---- MODULE Spec2Model ----
(***************************************************************************)
(* influxdb-collectd-proxy (proxy.go): the sample processor with its       *)
(* normalization cache, the batching loop of main, and the asynchronous    *)
(* backend writers.                                                        *)
(*                                                                         *)
(* Strings are sequences of one-character strings, so that concatenation   *)
(* and strings.Replace are computed.  A float64 is an exact rational       *)
(* [num, den] with den > 0, or one of the IEEE specials, encoded with      *)
(* den = 0: +Inf (num = 1), -Inf (num = -1), NaN (num = 0).  Rounding of   *)
(* float64 is not modelled.  Times are milliseconds, except a packet's     *)
(* TimeNs (what packet.Time().UnixNano() returns).                         *)
(***************************************************************************)
EXTENDS Integers, Sequences, FiniteSets, TLC

VARIABLES
    normalize,    \* the -normalize flag, fixed at start-up
    beforeCache,  \* map[string]CacheEntry: a function on the keys present
    c,            \* the channel of packets between collectd.Listen and main
    produced,     \* number of packets the listener has delivered so far
    heap,         \* backing arrays of the slices of *influxdb.Series
    seriesGroup,  \* main's slice: [arr, len] into heap
    timer,        \* main's timer (ms)
    now,          \* the wall clock (ms)
    writers,      \* the backendWriter goroutines started so far, in order
    running,      \* FALSE once the process has died of a panic
    last,         \* history: what processPacket did for each value of the
                  \* packet processed last
    early,        \* history: number of packets processed before the first
                  \* flush interval after start-up had elapsed
    seen          \* history: the sample identity and the cache key of every
                  \* value a key was computed for

vars == <<normalize, beforeCache, c, produced, heap, seriesGroup, timer, now,
          writers, running, last, early, seen>>

(***************************************************************************)
(* Program constants                                                       *)
(***************************************************************************)
influxWriteInterval == 1000
influxWriteLimit == 50
packetChannelSize == 100

(***************************************************************************)
(* Bounds of the model                                                     *)
(***************************************************************************)
MaxPackets == 2
MaxGauges == 61
MaxPairs == 27
MaxQueue == 2
MaxTicks == 4
MaxGaugeTicks == 2

TickMs == influxWriteInterval \div 2

(***************************************************************************)
(* float64                                                                 *)
(***************************************************************************)
Abs(n) == IF n < 0 THEN -n ELSE n

RECURSIVE Gcd(_, _)
Gcd(a, b) == IF b = 0 THEN a ELSE Gcd(b, a % b)

Ratio(n, d) ==
    LET g == Gcd(Abs(n), Abs(d))
        s == IF d < 0 THEN -1 ELSE 1
    IN  [num |-> s * (n \div g), den |-> s * (d \div g)]

NaN == [num |-> 0, den |-> 0]
PosInf == [num |-> 1, den |-> 0]
NegInf == [num |-> -1, den |-> 0]

IsNaN(x) == x.den = 0 /\ x.num = 0

Float64(n) == [num |-> n, den |-> 1]

FNeg(x) == [num |-> -x.num, den |-> x.den]

FSub(a, b) ==
    IF IsNaN(a) \/ IsNaN(b) THEN NaN
    ELSE IF a.den = 0 /\ b.den = 0 THEN (IF a.num = b.num THEN NaN ELSE a)
    ELSE IF a.den = 0 THEN a
    ELSE IF b.den = 0 THEN FNeg(b)
    ELSE Ratio(a.num * b.den - b.num * a.den, a.den * b.den)

\* a / b for a divisor that is a finite number (float64 of an integer)
FDiv(a, b) ==
    IF IsNaN(a) THEN NaN
    ELSE IF b.num = 0
         THEN (IF a.num > 0 THEN PosInf ELSE IF a.num < 0 THEN NegInf ELSE NaN)
    ELSE IF a.den = 0
         THEN (IF b.num > 0 THEN a ELSE FNeg(a))
    ELSE Ratio(a.num * b.den, a.den * b.num)

(***************************************************************************)
(* Strings                                                                 *)
(***************************************************************************)
Replace(s, old, new) == [k \in 1..Len(s) |-> IF s[k] = old THEN new ELSE s[k]]

Dot == <<".">>
Dash == <<"-">>
Empty == <<>>

(***************************************************************************)
(* The type catalog (types.db) and the packets of the model                *)
(***************************************************************************)
TypeGauge == "GAUGE"
TypeCounter == "COUNTER"
TypeDerive == "DERIVE"
TypeAbsolute == "ABSOLUTE"
DataTypeSet == {TypeCounter, TypeGauge, TypeDerive, TypeAbsolute}

StrCpu == <<"c", "p", "u">>
StrIf == <<"i", "f">>
StrFoo == <<"f", "o", "o">>
StrValue == <<"v", "a", "l">>
StrRx == <<"r", "x">>
StrTx == <<"t", "x">>
StrIdle == <<"i", "d", "l", "e">>
StrZero == <<"0">>
StrHost == <<"h", ".", "1">>

\* cpu declares one data source, if declares two; foo is not in the catalog
types == (StrCpu :> <<StrValue>>) @@ (StrIf :> <<StrRx, StrTx>>)

Packet(pi, ty, ti, dts, vals, ns) ==
    [Hostname |-> StrHost, Plugin |-> StrCpu, PluginInstance |-> pi,
     Type |-> ty, TypeInstance |-> ti, DataTypes |-> dts, Values |-> vals,
     TimeNs |-> ns]

\* <<UnixNano, raw value>> of the COUNTER and of the DERIVE samples
CounterSamples ==
    {<<0, 100>>, <<1000000000, 150>>, <<1500999999, 150>>, <<1500999999, 100>>}
DeriveSamples == {<<0, 100>>, <<1500999999, 150>>}

\* one COUNTER or DERIVE value, catalog type, no type instance
RatePackets ==
    { Packet(StrZero, StrCpu, Empty, <<TypeCounter>>, <<x[2]>>, x[1]) :
        x \in CounterSamples }
    \cup
    { Packet(StrZero, StrCpu, Empty, <<TypeDerive>>, <<x[2]>>, x[1]) :
        x \in DeriveSamples }

\* one GAUGE or ABSOLUTE value of the same series
LevelPackets ==
    { Packet(StrZero, StrCpu, Empty, <<k>>, <<100>>, 1000000000) :
        k \in {TypeGauge, TypeAbsolute} }

\* two values under one explicit type instance
InstancePackets ==
    { Packet(Empty, StrCpu, StrIdle, <<TypeCounter, TypeDerive>>,
             <<100, 150>>, 0) }

\* two values labelled by the two data sources of the catalog type
TwoSourcePackets ==
    { Packet(Empty, StrIf, Empty, <<TypeDerive, TypeGauge>>, <<100, 150>>,
             1000000000) }

\* two values of a catalog type that declares one data source
ShortTypePackets ==
    { Packet(Empty, StrCpu, Empty, <<TypeGauge, TypeGauge>>, <<100, 150>>, 0) }

\* a type that is not in the catalog, without and with a type instance
UnknownPackets ==
    { Packet(Empty, StrFoo, Empty, dts, <<100, 150>>, 0) :
        dts \in {<<TypeCounter, TypeGauge>>, <<TypeDerive, TypeAbsolute>>} }
    \cup
    { Packet(Empty, StrFoo, StrIdle, <<TypeGauge, TypeCounter>>,
             <<100, 150>>, 1000000000) }

Packets ==
    RatePackets \cup LevelPackets \cup InstancePackets \cup TwoSourcePackets
        \cup ShortTypePackets \cup UnknownPackets

\* the n-th sample of a stream of single-value GAUGE samples
GaugePacket(n) == Packet(StrZero, StrCpu, Empty, <<TypeGauge>>, <<n>>, 0)

\* the n-th sample of a stream that opens with one single-value GAUGE sample
\* and goes on with two-value GAUGE samples
PairPacket(n) ==
    IF n = 1
    THEN GaugePacket(1)
    ELSE Packet(Empty, StrIf, Empty, <<TypeGauge, TypeGauge>>,
                <<2 * n - 2, 2 * n - 1>>, 0)

\* COUNTER samples of one series on host h.1 and of four other sources: a
\* host named h_1, a plugin named cpu-0 without instance, the data source
\* name given as type instance, and a host named g
StrHostUnderscore == <<"h", "_", "1">>
StrHostOther == <<"g">>

KeyPackets ==
    LET first == Packet(StrZero, StrCpu, Empty, <<TypeCounter>>, <<100>>, 0)
        later == Packet(StrZero, StrCpu, Empty, <<TypeCounter>>, <<150>>,
                        1000000000)
    IN  { first,
          [later EXCEPT !.Hostname = StrHostUnderscore],
          [later EXCEPT !.Plugin = StrCpu \o Dash \o StrZero,
                        !.PluginInstance = Empty],
          [later EXCEPT !.TypeInstance = StrValue],
          [later EXCEPT !.Hostname = StrHostOther] }

(***************************************************************************)
(* processPacket                                                           *)
(***************************************************************************)
NumValues(packet) == Len(packet.DataTypes)

TypeKnown(packet) == packet.Type \in DOMAIN types

\* a check that passes over every value without a type instance
UnknownEither(packet) == ~TypeKnown(packet) \/ packet.TypeInstance = Empty

\* "pass the unknowns": t == nil && packet.TypeInstance == ""
Unknown(packet) == ~TypeKnown(packet) /\ packet.TypeInstance = Empty

\* t[i] is evaluated, with i beyond the data sources the type declares
IndexOutOfRange(packet, i) ==
    /\ packet.TypeInstance = Empty
    /\ TypeKnown(packet)
    /\ i > Len(types[packet.Type])

HostName(packet) == Replace(packet.Hostname, ".", "_")

PluginName(packet) ==
    IF packet.PluginInstance # Empty
    THEN packet.Plugin \o Dash \o packet.PluginInstance
    ELSE packet.Plugin

TypeName(packet, i) ==
    IF packet.TypeInstance # Empty
    THEN packet.Type \o Dash \o packet.TypeInstance
    ELSE IF TypeKnown(packet)
         THEN packet.Type \o Dash \o types[packet.Type][i]
         ELSE packet.Type

CacheKey(packet, i) ==
    HostName(packet) \o Dot \o PluginName(packet) \o Dot \o TypeName(packet, i)

SeriesName(packet, i) == PluginName(packet) \o Dot \o TypeName(packet, i)

Timestamp(packet) == packet.TimeNs \div 1000000

\* a processor that normalizes whatever the kind
NeedsNormalizingAnyKind(norm, dataType) == norm

\* *normalize && dataType == TypeCounter || dataType == TypeDerive
NeedsNormalizing(norm, dataType) ==
    (norm /\ dataType = TypeCounter) \/ dataType = TypeDerive

HasBaseline(cache, key) == key \in DOMAIN cache /\ ~IsNaN(cache[key].Value)

\* a value normalized without looking at the elapsed time
NormalizedValueUnguarded(value, timestamp, before) ==
    FDiv(FSub(value, before.Value),
         Float64((timestamp - before.Timestamp) \div 1000))

NormalizedValue(value, timestamp, before) ==
    IF timestamp - before.Timestamp > 0
    THEN FDiv(FSub(value, before.Value),
              Float64((timestamp - before.Timestamp) \div 1000))
    ELSE FSub(value, before.Value)

CacheEntry(timestamp, value) == [Timestamp |-> timestamp, Value |-> value]

\* a cache that keeps the entry a key got first
StoreIfAbsent(cache, key, entry) == cache @@ (key :> entry)

Store(cache, key, entry) == (key :> entry) @@ cache

Series(name, timestamp, value, hostName) ==
    [Name |-> name, Time |-> timestamp, Value |-> value, Host |-> hostName]

\* a processor that sends every value, baseline or not
ReadyAlways(normalizing, baseline) == TRUE

\* readyToSend: true, unless the value is normalized and has no baseline
ReadyToSend(normalizing, baseline) == ~normalizing \/ baseline

\* One iteration of the loop over the values of the packet, past the check
\* for unknowns: the cache after it, the series it appends, and the record
\* of it kept in `last`.
ProcessValue(norm, packet, i, cache) ==
    LET key == CacheKey(packet, i)
        timestamp == Timestamp(packet)
        value == Float64(packet.Values[i])
        dataType == packet.DataTypes[i]
        normalizing == NeedsNormalizing(norm, dataType)
        readyToSend == ReadyToSend(normalizing, HasBaseline(cache, key))
        normalizedValue ==
            IF normalizing /\ HasBaseline(cache, key)
            THEN NormalizedValue(value, timestamp, cache[key])
            ELSE value
        cacheAfter ==
            IF normalizing
            THEN Store(cache, key, CacheEntry(timestamp, value))
            ELSE cache
        out ==
            IF readyToSend
            THEN <<Series(SeriesName(packet, i), timestamp, normalizedValue,
                          HostName(packet))>>
            ELSE <<>>
    IN  [cache |-> cacheAfter, points |-> out,
         step |-> [packet |-> packet, index |-> i, key |-> key,
                   before |-> cache, after |-> cacheAfter, points |-> out]]

\* the iteration that ends at "continue": nothing is read or written
SkipValue(packet, i, cache) ==
    [cache |-> cache, points |-> <<>>,
     step |-> [packet |-> packet, index |-> i, key |-> Empty,
               before |-> cache, after |-> cache, points |-> <<>>]]

RECURSIVE ProcessFrom(_, _, _, _, _, _)
ProcessFrom(norm, packet, i, cache, out, steps) ==
    IF i > NumValues(packet)
    THEN [panic |-> FALSE, cache |-> cache, points |-> out, steps |-> steps]
    ELSE IF ~Unknown(packet) /\ IndexOutOfRange(packet, i)
    THEN [panic |-> TRUE, cache |-> cache, points |-> out, steps |-> steps]
    ELSE LET r == IF Unknown(packet)
                  THEN SkipValue(packet, i, cache)
                  ELSE ProcessValue(norm, packet, i, cache)
         IN  ProcessFrom(norm, packet, i + 1, r.cache, out \o r.points,
                         Append(steps, r.step))

processPacket(norm, packet, cache) ==
    ProcessFrom(norm, packet, 1, cache, <<>>, <<>>)

(***************************************************************************)
(* Slices of series.  A slice is [arr, len]: a backing array of heap and   *)
(* the number of its elements the slice holds.  append writes in place     *)
(* while the capacity lasts and otherwise moves to a grown array; the old  *)
(* array is kept only while a writer still reads it.                       *)
(***************************************************************************)
View(hp, sl) == SubSeq(hp[sl.arr].elems, 1, sl.len)

Shared(ws, arr) ==
    \E k \in 1..Len(ws) : ws[k].pc = "write" /\ ws[k].arr = arr

AppendSeries(hp, ws, sl, pts) ==
    LET a == hp[sl.arr]
        need == sl.len + Len(pts)
        grown == [elems |-> View(hp, sl) \o pts,
                  cap |-> IF need > 2 * a.cap THEN need ELSE 2 * a.cap]
    IN  IF Len(pts) = 0
        THEN [heap |-> hp, slice |-> sl]
        ELSE IF need <= a.cap
        THEN [heap |-> [hp EXCEPT ![sl.arr].elems =
                            View(hp, sl) \o pts \o SubSeq(@, need + 1, Len(@))],
              slice |-> [sl EXCEPT !.len = need]]
        ELSE IF Shared(ws, sl.arr)
        THEN [heap |-> Append(hp, grown),
              slice |-> [arr |-> Len(hp) + 1, len |-> need]]
        ELSE [heap |-> [hp EXCEPT ![sl.arr] = grown],
              slice |-> [sl EXCEPT !.len = need]]

\* seriesGroup[:0]: the same backing array, emptied
ResliceSeriesGroup(hp, sl) ==
    [heap |-> hp, slice |-> [arr |-> sl.arr, len |-> 0]]

\* make([]*influxdb.Series, 0)
MakeSeriesGroup(hp, sl) ==
    [heap |-> Append(hp, [elems |-> <<>>, cap |-> 0]),
     slice |-> [arr |-> Len(hp) + 1, len |-> 0]]

(***************************************************************************)
(* backendWriter                                                           *)
(***************************************************************************)
\* go backendWriter(seriesGroup); handed is the history of what the batch
\* held when it was handed off
\* a hand-off of seriesGroup[:len-1]
StartWriterShort(hp, sl) ==
    [arr |-> sl.arr, len |-> sl.len - 1, pc |-> "write", calls |-> 0,
     err |-> FALSE, sent |-> <<>>,
     handed |-> SubSeq(hp[sl.arr].elems, 1, sl.len - 1)]

StartWriter(hp, sl) ==
    [arr |-> sl.arr, len |-> sl.len, pc |-> "write", calls |-> 0,
     err |-> FALSE, sent |-> <<>>, handed |-> View(hp, sl)]

\* a writer that calls client.WriteSeries again after an error
WriteSeriesRetry(w, batch, err) ==
    [w EXCEPT !.pc = IF err THEN "write" ELSE "done", !.calls = @ + 1,
              !.err = err, !.sent = batch]

\* client.WriteSeries(seriesGroup) returns err; the writer logs and ends
WriteSeries(w, batch, err) ==
    [w EXCEPT !.pc = "done", !.calls = @ + 1, !.err = err, !.sent = batch]

\* writers that take their turns in the order of the hand-offs
CanWriteInOrder(ws, k) ==
    ws[k].pc = "write" /\ \A j \in 1..(k - 1) : ws[j].pc = "done"

\* a goroutine started by go backendWriter(...) runs whenever it is scheduled
CanWrite(ws, k) == ws[k].pc = "write"

backendWriter(k) ==
    /\ running
    /\ CanWrite(writers, k)
    /\ \E err \in BOOLEAN :
         writers' = [writers EXCEPT
                        ![k] = WriteSeries(@, View(heap, @), err)]
    /\ UNCHANGED <<normalize, beforeCache, c, produced, heap, seriesGroup,
                   timer, now, running, last, early, seen>>

(***************************************************************************)
(* main: the loop over the channel                                         *)
(***************************************************************************)
\* a loop that flushes only above the limit
KeepCollectingUpToLimit(elapsed, n) ==
    elapsed < influxWriteInterval /\ n <= influxWriteLimit

\* a loop that flushes on time alone
KeepCollectingByTime(elapsed, n) == elapsed < influxWriteInterval

\* a loop that sees no trigger while the batch is empty
KeepCollectingWhileEmpty(elapsed, n) ==
    n = 0 \/ (elapsed < influxWriteInterval /\ n < influxWriteLimit)

\* time.Since(timer) < influxWriteInterval && len(seriesGroup) < influxWriteLimit
KeepCollecting(elapsed, n) ==
    elapsed < influxWriteInterval /\ n < influxWriteLimit

\* what a value's lineage is told by: the five identity fields of its sample
Identity(packet) ==
    [Hostname |-> packet.Hostname, Plugin |-> packet.Plugin,
     PluginInstance |-> packet.PluginInstance, Type |-> packet.Type,
     TypeInstance |-> packet.TypeInstance]

Keyed(steps) ==
    { [id |-> Identity(steps[k].packet), key |-> steps[k].key] :
        k \in { j \in 1..Len(steps) : steps[j].key # Empty } }

\* a loop that takes the next packet only when no write is in flight
CanReceiveIdle(ch, ws) ==
    ch # <<>> /\ \A k \in 1..Len(ws) : ws[k].pc # "write"

\* for packet := range c: the loop waits for the channel, and for it alone
CanReceive(ch, ws) == ch # <<>>

\* the receive from the channel, the one statement of the loop that can wait
Receive ==
    /\ running
    /\ CanReceive(c, writers)
    /\ c' = Tail(c)

\* one iteration: the receive, and then the body, which runs through without
\* waiting (go backendWriter returns at once)
MainLoop ==
    /\ Receive
    /\ LET r == processPacket(normalize, Head(c), beforeCache)
           app == AppendSeries(heap, writers, seriesGroup, r.points)
           flush == ~KeepCollecting(now - timer, app.slice.len)
           handoff == flush /\ app.slice.len > 0
           fresh == MakeSeriesGroup(app.heap, app.slice)
       IN  /\ beforeCache' = r.cache
           /\ last' = r.steps
           /\ early' = IF now < influxWriteInterval THEN early + 1 ELSE early
           /\ seen' = seen \cup Keyed(r.steps)
           /\ IF r.panic
              THEN /\ running' = FALSE
                   /\ UNCHANGED <<heap, seriesGroup, timer, writers>>
              ELSE /\ running' = TRUE
                   /\ heap' = IF handoff THEN fresh.heap ELSE app.heap
                   /\ seriesGroup' = IF handoff THEN fresh.slice ELSE app.slice
                   /\ writers' =
                        IF handoff
                        THEN Append(writers, StartWriter(app.heap, app.slice))
                        ELSE writers
                   /\ timer' = IF flush THEN now ELSE timer
    /\ UNCHANGED <<normalize, produced, now>>

(***************************************************************************)
(* The environment: collectd.Listen fills the channel, time passes         *)
(***************************************************************************)
Deliver(packet) ==
    /\ running
    /\ Len(c) < packetChannelSize
    /\ Len(c) < MaxQueue
    /\ c' = Append(c, packet)
    /\ produced' = produced + 1
    /\ UNCHANGED <<normalize, beforeCache, heap, seriesGroup, timer, now,
                   writers, running, last, early, seen>>

Listen ==
    /\ produced < MaxPackets
    /\ \E packet \in Packets : Deliver(packet)

ListenGauge ==
    /\ produced < MaxGauges
    /\ Deliver(GaugePacket(produced + 1))

Advance(ticks) ==
    /\ running
    /\ now < ticks * TickMs
    /\ now' = now + TickMs
    /\ UNCHANGED <<normalize, beforeCache, c, produced, heap, seriesGroup,
                   timer, writers, running, last, early, seen>>

Init ==
    /\ normalize \in BOOLEAN
    /\ beforeCache = <<>>
    /\ c = <<>>
    /\ produced = 0
    /\ heap = <<[elems |-> <<>>, cap |-> 0]>>
    /\ seriesGroup = [arr |-> 1, len |-> 0]
    /\ timer = 0
    /\ now = 0
    /\ writers = <<>>
    /\ running = TRUE
    /\ last = <<>>
    /\ early = 0
    /\ seen = {}

Tick == Advance(MaxTicks)

TickGauge == Advance(MaxGaugeTicks)

Writer == \E k \in 1..Len(writers) : backendWriter(k)

Next == Listen \/ MainLoop \/ Writer \/ Tick

Spec == Init /\ [][Next]_vars

\* a stream of single-value GAUGE samples
NextGauge == ListenGauge \/ MainLoop \/ Writer \/ TickGauge

SpecGauge == Init /\ [][NextGauge]_vars

\* one single-value GAUGE sample, then a stream of two-value GAUGE samples
ListenPairs ==
    /\ produced < MaxPairs
    /\ Deliver(PairPacket(produced + 1))

NextPairs == ListenPairs \/ MainLoop \/ Writer \/ TickGauge

SpecPairs == Init /\ [][NextPairs]_vars

\* COUNTER samples of sources that differ in one identity field
ListenKeys ==
    /\ produced < MaxPackets
    /\ \E packet \in KeyPackets : Deliver(packet)

NextKeys == ListenKeys \/ MainLoop \/ Writer \/ Tick

SpecKeys == Init /\ [][NextKeys]_vars

(***************************************************************************)
(* Properties.  A step is one record of `last`: one value of the packet    *)
(* processed last, with the cache before and after it and the series it    *)
(* appended.                                                               *)
(***************************************************************************)
Steps == { last[k] : k \in 1..Len(last) }

StepKind(s) == s.packet.DataTypes[s.index]
StepRaw(s) == s.packet.Values[s.index]
StepTime(s) == Timestamp(s.packet)

RateKind(s) == StepKind(s) \in {TypeCounter, TypeDerive}

Discarded(s) ==
    s.packet.Type \notin DOMAIN types /\ s.packet.TypeInstance = Empty

ValidBaseline(s) ==
    s.key \in DOMAIN s.before /\ ~IsNaN(s.before[s.key].Value)

Elapsed(s) == StepTime(s) - s.before[s.key].Timestamp

\* (v2 - v1) * 1000 / dt, exactly
ExactRate(v2, v1, dt) ==
    LET d == FSub(Float64(v2), v1)
    IN  Ratio(d.num * 1000, d.den * dt)

EmitsRaw(s) ==
    /\ Len(s.points) = 1
    /\ s.points[1].Value = Float64(StepRaw(s))

\* C1: with normalization enabled, a COUNTER or DERIVE value with a valid
\* cache entry (t1, v1), observed as (t2, v2) with t2 - t1 > 0 ms, emits one
\* point whose value is (v2 - v1) * 1000 / (t2 - t1), for every positive
\* elapsed time.
C1_RatePerSecond ==
    \A s \in Steps :
        (normalize /\ ~Discarded(s) /\ RateKind(s) /\ ValidBaseline(s)
            /\ Elapsed(s) > 0)
        => /\ Len(s.points) = 1
           /\ s.points[1].Value =
                ExactRate(StepRaw(s), s.before[s.key].Value, Elapsed(s))

\* C2: with normalization disabled, every value that is not discarded as
\* unknown, of whatever kind, emits one point carrying its raw value and
\* leaves the cache as it was.
C2_DisabledIsRaw ==
    \A s \in Steps :
        (~normalize /\ ~Discarded(s))
        => (EmitsRaw(s) /\ s.after = s.before)

\* C3: with normalization enabled, a COUNTER or DERIVE value whose key is
\* absent from the cache, or cached as not-a-number, emits no point and
\* leaves the cache entry of its key at (current timestamp, raw value).
C3_FirstObservation ==
    \A s \in Steps :
        (normalize /\ ~Discarded(s) /\ RateKind(s) /\ ~ValidBaseline(s))
        => /\ s.points = <<>>
           /\ s.key \in DOMAIN s.after
           /\ s.after[s.key] =
                [Timestamp |-> StepTime(s), Value |-> Float64(StepRaw(s))]

C3_Witness ==
    \E s \in Steps :
        /\ normalize /\ ~Discarded(s) /\ RateKind(s)
        /\ s.key \notin DOMAIN s.before
        /\ s.points = <<>>

\* C4: with normalization enabled, a COUNTER or DERIVE value whose key was
\* not cached when the processing of its packet began emits no point: no
\* value of a packet is the baseline of another value of the same packet.
C4_NoBaselineWithinSample ==
    \A s \in Steps :
        (normalize /\ ~Discarded(s) /\ RateKind(s)
            /\ s.key \notin DOMAIN last[1].before)
        => s.points = <<>>

C6_NoElapsedTime ==
    \A s \in Steps :
        (normalize /\ ~Discarded(s) /\ RateKind(s) /\ ValidBaseline(s)
            /\ Elapsed(s) <= 0)
        => /\ Len(s.points) = 1
           /\ s.points[1].Value =
                [num |-> StepRaw(s) - s.before[s.key].Value.num, den |-> 1]
           /\ s.after[s.key] =
                [Timestamp |-> StepTime(s), Value |-> Float64(StepRaw(s))]

C6_Witness ==
    \E s \in Steps :
        /\ normalize /\ ~Discarded(s) /\ RateKind(s) /\ ValidBaseline(s)
        /\ Elapsed(s) < 0
        /\ StepRaw(s) # s.before[s.key].Value.num
        /\ Len(s.points) = 1

\* C7: a value of a packet whose type is not in the catalog and whose type
\* instance is empty emits no point and leaves the cache as it was, whatever
\* its kind and the normalization flag; a packet of an unknown type with a
\* type instance is processed: it emits a point or sets a cache entry.
C7_UnknownDiscarded ==
    \A s \in Steps :
        /\ Discarded(s) => (s.points = <<>> /\ s.after = s.before)
        /\ (s.packet.Type \notin DOMAIN types /\ s.packet.TypeInstance # Empty)
            => (s.points # <<>> \/ s.after # s.before)

C7_Witness ==
    /\ \E s \in Steps : Discarded(s) /\ StepKind(s) = TypeDerive
    /\ beforeCache # <<>>

(***************************************************************************)
(* Properties of the batching loop and of the writers                      *)
(***************************************************************************)
\* the series that the n-th sample of the GAUGE stream is to produce
GaugePoint(n) ==
    [Name |-> <<"c", "p", "u", "-", "0", ".", "c", "p", "u", "-", "v", "a", "l">>,
     Time |-> 0, Value |-> [num |-> n, den |-> 1], Host |-> <<"h", "_", "1">>]

GaugePoints(a, b) == [k \in 1..(b - a + 1) |-> GaugePoint(a + k - 1)]

Processed == produced - Len(c)

\* the 60 samples of the scenario: ten more than a full batch
ScenarioSamples == influxWriteLimit + 10

\* C8, as claimed: when 60 single-value GAUGE samples are processed before
\* the flush interval has elapsed, one hand-off happens during them, of the
\* first 50 points, and the next hand-off is a batch of exactly the other 10.
C8_FiftyThenTen ==
    early >= ScenarioSamples
    => /\ Len(writers) >= 1
       /\ writers[1].handed = GaugePoints(1, 50)
       /\ Len(writers) >= 2 => writers[2].handed = GaugePoints(51, 60)

\* C8, amended: when 60 single-value GAUGE samples are processed before the
\* flush interval has elapsed, one hand-off happens during them, of the
\* first 50 points; the other 10 stay in the current batch, and the next
\* hand-off carries them followed by the points of every sample processed
\* since, the one that meets the trigger included: at least 11 points.
C8_FiftyThenRest ==
    early >= ScenarioSamples
    => /\ Len(writers) >= 1
       /\ writers[1].handed = GaugePoints(1, 50)
       /\ Len(writers) = 1 => View(heap, seriesGroup) = GaugePoints(51, Processed)
       /\ Len(writers) >= 2
            => \E m \in (ScenarioSamples + 1)..Processed :
                    writers[2].handed = GaugePoints(51, m)

C8_Witness ==
    /\ early >= ScenarioSamples
    /\ Len(writers) = 2
    /\ Len(writers[2].handed) = 11

RECURSIVE PointsOf(_)
PointsOf(steps) ==
    IF steps = <<>> THEN <<>> ELSE Head(steps).points \o PointsOf(Tail(steps))

\* what a writer reads is what it was handed, and it is not main's batch
WritersIsolated ==
    \A k \in 1..Len(writers) :
        /\ writers[k].pc = "write"
            => /\ View(heap, writers[k]) = writers[k].handed
               /\ writers[k].arr # seriesGroup.arr
        /\ writers[k].pc = "done" => writers[k].sent = writers[k].handed

\* C9: at every hand-off main's batch becomes a fresh empty batch, the
\* points of the next sample are the first of the new batch, and no later
\* append shows in a batch already handed to a writer, in flight or done.
C9_FreshBatch ==
    [][ /\ WritersIsolated'
        /\ Len(writers') > Len(writers)
            => /\ View(heap', seriesGroup') = <<>>
               /\ writers'[Len(writers')].handed =
                    View(heap, seriesGroup) \o PointsOf(last')
        /\ (Len(c') < Len(c) /\ running' /\ Len(writers') = Len(writers)
              /\ View(heap, seriesGroup) = <<>>)
            => View(heap', seriesGroup') = PointsOf(last')
      ]_vars

C9_Witness ==
    /\ \E k \in 1..Len(writers) : writers[k].pc = "write"
    /\ seriesGroup.len > 0

\* C10: a handed-off batch is written by exactly one call, failed or not:
\* a writer that has made its call never changes again (no second call, no
\* requeue), its call sends the batch it was handed, and the call changes
\* neither main's batch, the timer, the cache, nor what the loop's next
\* iteration waits for (the channel, the process being alive).
C10_WriteOnce ==
    [][ \A k \in 1..Len(writers) :
            /\ writers[k].calls <= 1
            /\ writers[k].pc = "done" => writers'[k] = writers[k]
            /\ writers'[k] # writers[k]
                => /\ writers'[k].pc = "done"
                   /\ writers'[k].calls = 1
                   /\ writers'[k].sent = writers[k].handed
                   /\ UNCHANGED <<heap, seriesGroup, timer, beforeCache, c,
                                  running>>
      ]_vars

\* a first write has failed, and a later packet has been processed into a
\* second batch that was handed off and written
C10_Witness ==
    /\ Len(writers) = 2
    /\ writers[1].pc = "done" /\ writers[1].err
    /\ writers[2].pc = "done" /\ ~writers[2].err
    /\ beforeCache # <<>>

(***************************************************************************)
(* C11: the loop never waits on a write.  In every reachable state of a    *)
(* running proxy whose channel holds a packet, the loop can receive it,    *)
(* which is the one statement of an iteration that can wait, however many  *)
(* writers are between their start and the end of their write.             *)
(***************************************************************************)
InFlight == { k \in 1..Len(writers) : writers[k].pc = "write" }

C11_LoopNeverWaits == (running /\ c # <<>>) => ENABLED Receive

\* every packet of the run has been handed off on its own, no write has
\* returned, and the loop has taken the packets all the same
C11_Witness ==
    /\ Cardinality(InFlight) = MaxPackets
    /\ produced = MaxPackets
    /\ c = <<>>

(***************************************************************************)
(* C12: the flush decision is taken once per processed sample, after its   *)
(* points are appended.  Below the interval and below the limit, nothing   *)
(* is handed off and batch and timer stay; otherwise the timer is reset,   *)
(* and the batch is handed off and replaced by an empty one exactly when   *)
(* it is not empty.  No writer ever holds an empty batch.                  *)
(***************************************************************************)
\* a step that is a completed iteration of the loop
Iteration == Len(c') < Len(c) /\ running'

\* the batch the flush decision looks at: the one before the step and the
\* points of the sample
Appended == View(heap, seriesGroup) \o PointsOf(last')

HandsOff(batch) ==
    /\ Len(writers') = Len(writers) + 1
    /\ SubSeq(writers', 1, Len(writers)) = writers
    /\ writers'[Len(writers')].handed = batch
    /\ writers'[Len(writers')].pc = "write"

Observations(steps, key) ==
    { k \in 1..Len(steps) : steps[k].key = key /\ RateKind(steps[k]) }

Latest(steps, key) ==
    steps[CHOOSE k \in Observations(steps, key) :
            \A j \in Observations(steps, key) : j <= k]

C13_CacheHoldsLatest ==
    [][ normalize =>
          /\ DOMAIN beforeCache \subseteq DOMAIN beforeCache'
          /\ Len(c') >= Len(c) => beforeCache' = beforeCache
          /\ Len(c') < Len(c) =>
               /\ \A k \in 1..Len(last') :
                     (RateKind(last'[k]) /\ ~Discarded(last'[k]))
                        => last'[k].key \in DOMAIN beforeCache'
               /\ \A key \in DOMAIN beforeCache' :
                     IF Observations(last', key) = {}
                     THEN /\ key \in DOMAIN beforeCache
                          /\ beforeCache'[key] = beforeCache[key]
                     ELSE beforeCache'[key] =
                            CacheEntry(StepTime(Latest(last', key)),
                                       Float64(StepRaw(Latest(last', key))))
      ]_vars

\* the entry that a first observation, which was held back, had left for its
\* key has been replaced by the one of a later observation
C13_Witness ==
    /\ normalize
    /\ \E s \in Steps :
          /\ s.key \in DOMAIN s.before
          /\ beforeCache[s.key] # s.before[s.key]
          /\ beforeCache[s.key] = CacheEntry(StepTime(s), Float64(StepRaw(s)))

(***************************************************************************)
(* C14: the cache key identifies the lineage.  No two values seen so far   *)
(* that differ in host, plugin, plugin instance, type or type instance     *)
(* have the same cache key.                                                *)
(***************************************************************************)
C14_KeyIdentifiesLineage ==
    \A a \in seen : \A b \in seen : a.key = b.key => a.id = b.id

(***************************************************************************)
(* C15: processing a sample always completes.  The proxy keeps running,    *)
(* and the sample processed last has been gone through value by value, in  *)
(* index order and to its last value, with at most one point per value.    *)
(***************************************************************************)
C15_AlwaysCompletes ==
    /\ running
    /\ \A k \in 1..Len(last) :
          /\ last[k].index = k
          /\ Len(last[k].points) <= 1
          /\ Len(last) = NumValues(last[k].packet)

(***************************************************************************)
(* C16: the order of the writes is not the order of the hand-offs.  Every  *)
(* writer that has not written yet can perform its write as the next step, *)
(* whichever writers started before it are still to write; so a batch      *)
(* handed off later can reach the backend first.                           *)
(***************************************************************************)
C16_WritersIndependent ==
    running => \A k \in InFlight : ENABLED backendWriter(k)

\* a later batch has been written while an earlier one still waits
C16_Witness ==
    \E j \in 1..Len(writers) : \E k \in 1..Len(writers) :
        /\ j < k
        /\ writers[j].pc = "write"
        /\ writers[k].pc = "done"
        /\ writers[k].sent = writers[k].handed

(***************************************************************************)
(* C17: no point is lost, duplicated or reordered between processPacket    *)
(* and the hand-offs.  The batches handed off so far, in hand-off order,   *)
(* followed by the current batch are, at every moment, the points that     *)
(* processPacket has returned so far, in the order it returned them:       *)
(* empty at the start, extended by exactly the returned points in every    *)
(* iteration of the loop, and unchanged by every other step.               *)
(***************************************************************************)
RECURSIVE HandedOff(_)
HandedOff(ws) ==
    IF ws = <<>> THEN <<>> ELSE Head(ws).handed \o HandedOff(Tail(ws))

Pipeline == HandedOff(writers) \o View(heap, seriesGroup)

\* the points processPacket returns to the loop in this step
Returned == IF Iteration THEN PointsOf(last') ELSE <<>>

C17_PipelineKeepsPoints ==
    /\ Pipeline = <<>>
    /\ [][Pipeline' = Pipeline \o Returned]_vars

\* points of two samples, the first handed off and the second in the batch
C17_Witness ==
    /\ writers # <<>>
    /\ seriesGroup.len > 0
    /\ Len(Pipeline) > Len(PointsOf(last))
    /\ PointsOf(last) # <<>>

(***************************************************************************)
(* C18: whenever the loop is about to receive the next sample, the batch   *)
(* holds fewer than influxWriteLimit points; and a batch that is handed    *)
(* off holds at most influxWriteLimit - 1 points plus one point per value  *)
(* of the sample whose processing handed it off.                           *)
(***************************************************************************)
C18_BelowLimitAtReceive ==
    /\ seriesGroup.len < influxWriteLimit
    /\ [][ /\ seriesGroup'.len < influxWriteLimit
           /\ Len(writers') > Len(writers) =>
                Len(writers'[Len(writers')].handed)
                    <= influxWriteLimit - 1 + NumValues(Head(c))
         ]_vars

\* a batch of influxWriteLimit + 1 points has been handed off: the loop held
\* influxWriteLimit - 1 points and received a sample of two values
C18_Witness ==
    \E k \in 1..Len(writers) :
        Len(writers[k].handed) = influxWriteLimit + 1

(***************************************************************************)
(* C19: a point in the batch is handed off at the latest by the first      *)
(* sample that is processed once influxWriteInterval has passed since the  *)
(* timer was reset: the step that receives that sample starts a writer     *)
(* whose batch begins with all the points the batch held.  And hand-offs   *)
(* are part of processing a sample: no other step starts a writer or       *)
(* changes the batch, however far the clock advances.                      *)
(***************************************************************************)
Waiting == View(heap, seriesGroup)

C19_HandedOffByNextSample ==
    [][ /\ (Len(c') < Len(c) /\ now - timer >= influxWriteInterval
              /\ Waiting # <<>>)
           => /\ Len(writers') = Len(writers) + 1
              /\ Len(writers'[Len(writers')].handed) >= Len(Waiting)
              /\ SubSeq(writers'[Len(writers')].handed, 1, Len(Waiting))
                   = Waiting
        /\ Len(writers') > Len(writers) => Len(c') < Len(c)
        /\ Len(c') >= Len(c) => Waiting' = Waiting
      ]_vars

====
